---- MODULE Spec2Model ----
(***************************************************************************)
(* FireIncident REST service: the record model (service/models.py) and the *)
(* request handlers (service/routes.py).                                   *)
(*                                                                         *)
(* Three specifications:                                                   *)
(*   SpecDeser  FireIncident.deserialize applied to bounded inputs         *)
(*   Spec       the HTTP handlers over the table and the shared session    *)
(*   SpecConc   PUT and DELETE handlers of concurrent requests, interleaved*)
(*              at their database statements                               *)
(***************************************************************************)
EXTENDS Integers, Sequences, FiniteSets, TLC

VARIABLES
    table,          \* committed rows of the fire_incident table: object_id -> row
    tx,             \* the rows as the open transaction of db.session sees them
    session,        \* db.session: modified persistent objects, identity key -> object
    req,            \* the request handled last
    resp,           \* its response
    pc,             \* SpecDeser: "idle" | "call" | "done"
    fire_incident,  \* SpecDeser: the object deserialize is called on (self)
    data,           \* SpecDeser: the argument of deserialize
    result,         \* SpecDeser: how the call ended
    threads         \* SpecConc: per thread, the request in progress

vars == <<table, tx, session, req, resp, pc, fire_incident, data, result, threads>>

----------------------------------------------------------------------------
(* Bounds *)

\* requests address the object_ids 1..MaxId
MaxId == 2
\* SpecDeser: mappings lack at most this many of the required keys
MaxMissing == 2

\* the object_ids of request paths
Ids == 1..MaxId
\* the object_ids request bodies carry
BodyIds == {1, 2, 3}

----------------------------------------------------------------------------
(* Values.  Every value is a record of the same shape, so that any two     *)
(* values can be compared: t is the Python type, s a string payload, n a   *)
(* number payload, off the UTC offset (minutes) of a datetime.             *)

PyInt(n) == [t |-> "int", s |-> "", n |-> n, off |-> 0]
PyFloat(n) == [t |-> "float", s |-> "", n |-> n, off |-> 0]
PyStr(s) == [t |-> "str", s |-> s, n |-> 0, off |-> 0]
None == [t |-> "NoneType", s |-> "", n |-> 0, off |-> 0]
\* an aware datetime: n is the instant (minutes since 2020-01-01T00:00Z)
DateTime(instant, off) == [t |-> "datetime", s |-> "", n |-> instant, off |-> off]

\* the keys deserialize reads, in the order it reads them
FieldOrder ==
    << "object_id", "x", "y", "incident_size", "containment_datetime",
       "fire_discovery_datetime", "incident_name", "incident_type_category",
       "initial_latitude", "initial_longitude", "poo_city", "poo_county",
       "poo_state", "fire_cause_id", "poo_landowner_category",
       "unique_fire_identifier" >>

Keys == {FieldOrder[i] : i \in 1..Len(FieldOrder)}

DateKeys == {"containment_datetime", "fire_discovery_datetime"}

\* FireIncident(): every column attribute is None until it is assigned
NewFireIncident == [k \in Keys |-> None]

----------------------------------------------------------------------------
(* datetime.fromisoformat / datetime.isoformat on the timestamps used here *)

IsoStrings ==
    {"2020-01-01T00:00:00+00:00", "2020-01-01T01:00:00+01:00",
     "2020-01-02T00:00:00+00:00"}

\* the datetime an ISO-8601 string denotes
IsoParse(s) ==
    CASE s = "2020-01-01T00:00:00+00:00" -> DateTime(0, 0)
      [] s = "2020-01-01T01:00:00+01:00" -> DateTime(0, 60)
      [] s = "2020-01-02T00:00:00+00:00" -> DateTime(1440, 0)

\* datetime.fromisoformat(v): TypeError unless v is a str, ValueError unless
\* the str is ISO-8601
fromisoformat(v) ==
    IF v.t # "str" THEN [exc |-> "TypeError", val |-> None]
    ELSE IF v.s \in IsoStrings THEN [exc |-> "none", val |-> IsoParse(v.s)]
    ELSE [exc |-> "ValueError", val |-> None]

\* a faulty variant of isoformat: the instant is rendered in UTC whatever the
\* offset of the datetime
isoformat_utc(dt) ==
    CASE dt.n = 0 -> PyStr("2020-01-01T00:00:00+00:00")
      [] dt.n = 1440 -> PyStr("2020-01-02T00:00:00+00:00")

\* dt.isoformat()
isoformat(dt) ==
    CASE dt.n = 0 /\ dt.off = 0 -> PyStr("2020-01-01T00:00:00+00:00")
      [] dt.n = 0 /\ dt.off = 60 -> PyStr("2020-01-01T01:00:00+01:00")
      [] dt.n = 1440 /\ dt.off = 0 -> PyStr("2020-01-02T00:00:00+00:00")

----------------------------------------------------------------------------
(* Request bodies as request.get_json() returns them: kind is the Python   *)
(* type of the decoded JSON, m the mapping when it is a dict.              *)

NoMapping == [k \in {} |-> None]

Dict(m) == [kind |-> "dict", m |-> m]
NonDict(kind) == [kind |-> kind, m |-> NoMapping]

\* data[k]
subscript(d, k) ==
    IF d.kind = "dict"
    THEN IF k \in DOMAIN d.m
         THEN [exc |-> "none", val |-> d.m[k]]
         ELSE [exc |-> "KeyError", val |-> None]
    ELSE [exc |-> "TypeError", val |-> None]

\* the i-th statement of the try block of deserialize: data[k] and, for a
\* timestamp, datetime.fromisoformat of it
assignment(d, i) ==
    LET g == subscript(d, FieldOrder[i])
    IN  IF g.exc = "none" /\ FieldOrder[i] \in DateKeys THEN fromisoformat(g.val)
        ELSE g

\* the position of key k in the try block
FieldIndex == [k \in Keys |-> CHOOSE i \in 1..Len(FieldOrder) : FieldOrder[i] = k]

\* a faulty variant of the try block: poo_county is read but not assigned
deserialize_try_keeps_poo_county(self, d) ==
    LET raising == {i \in 1..Len(FieldOrder) : assignment(d, i).exc # "none"}
        stop == IF raising = {} THEN Len(FieldOrder) + 1
                ELSE CHOOSE i \in raising : \A j \in raising : i <= j
        exc == IF raising = {} THEN "none" ELSE assignment(d, stop).exc
    IN  [rec |-> [k \in Keys |-> IF FieldIndex[k] < stop /\ k # "poo_county"
                                 THEN assignment(d, FieldIndex[k]).val
                                 ELSE self[k]],
         exc |-> exc,
         arg |-> IF exc = "KeyError" THEN FieldOrder[stop] ELSE "",
         n |-> stop - 1]

\* the try block of deserialize: the statements run in order up to the first
\* one that raises; rec is the object as far as it was assigned, exc the
\* exception that stopped it, arg the key of a KeyError, n the number of
\* attributes assigned
deserialize_try(self, d) ==
    LET raising == {i \in 1..Len(FieldOrder) : assignment(d, i).exc # "none"}
        stop == IF raising = {} THEN Len(FieldOrder) + 1
                ELSE CHOOSE i \in raising : \A j \in raising : i <= j
        exc == IF raising = {} THEN "none" ELSE assignment(d, stop).exc
    IN  [rec |-> [k \in Keys |-> IF FieldIndex[k] < stop
                                 THEN assignment(d, FieldIndex[k]).val
                                 ELSE self[k]],
         exc |-> exc,
         arg |-> IF exc = "KeyError" THEN FieldOrder[stop] ELSE "",
         n |-> stop - 1]

\* a faulty variant of deserialize: the TypeError handler is missing
deserialize_uncaught_TypeError(self, d) ==
    LET r == deserialize_try(self, d)
    IN  CASE r.exc = "KeyError" ->
               [rec |-> r.rec, exc |-> "DataValidationError",
                msg |-> "missing", key |-> r.arg, n |-> r.n]
          [] OTHER ->
               [rec |-> r.rec, exc |-> r.exc, msg |-> "", key |-> "", n |-> r.n]

\* FireIncident.deserialize(self, data): rec is self afterwards, exc the
\* exception raised ("none": it returned self), msg/key the message of a
\* DataValidationError, n the number of attributes assigned
deserialize(self, d) ==
    LET r == deserialize_try(self, d)
    IN  CASE r.exc = "KeyError" ->
               [rec |-> r.rec, exc |-> "DataValidationError",
                msg |-> "missing", key |-> r.arg, n |-> r.n]
          [] r.exc = "TypeError" ->
               [rec |-> r.rec, exc |-> "DataValidationError",
                msg |-> "bad or no data", key |-> "", n |-> r.n]
          [] OTHER ->
               [rec |-> r.rec, exc |-> r.exc, msg |-> "", key |-> "", n |-> r.n]

----------------------------------------------------------------------------
(* Sample values: a well-typed value for every key, as FireIncidentFactory *)
(* produces them                                                           *)

Counties == {"Los Angeles", "Kern"}

SampleValue(k) ==
    CASE k = "object_id" -> PyInt(1)
      [] k = "fire_cause_id" -> PyInt(1)
      [] k \in {"x", "y", "incident_size", "initial_latitude", "initial_longitude"} ->
             PyFloat(1)
      [] k \in DateKeys -> PyStr("2020-01-01T00:00:00+00:00")
      [] k = "incident_name" -> PyStr("Venice, CA")
      [] k = "incident_type_category" -> PyStr("WF")
      [] k = "poo_city" -> PyStr("Los Angeles")
      [] k = "poo_county" -> PyStr("Los Angeles")
      [] k = "poo_state" -> PyStr("US-CA")
      [] k = "poo_landowner_category" -> PyStr("federal")
      [] k = "unique_fire_identifier" -> PyStr("1994-AZCRA-000037")

\* a complete body with the given object_id and poo_county; the bodies of
\* Kern give fire_discovery_datetime at the offset +01:00
Body(oid, county) ==
    Dict([k \in Keys |->
            CASE k = "object_id" -> PyInt(oid)
              [] k = "poo_county" -> PyStr(county)
              [] k = "fire_discovery_datetime" /\ county = "Kern" ->
                     PyStr("2020-01-01T01:00:00+01:00")
              [] OTHER -> SampleValue(k)])

\* the mapping m without the keys in miss
Without(m, miss) == [k \in (DOMAIN m) \ miss |-> m[k]]

\* values tried for a timestamp key: ISO-8601, a str that is not, not a str
TimestampValues ==
    {PyStr("2020-01-01T00:00:00+00:00"), PyStr("2020-01-01T01:00:00+01:00"),
     PyStr("2020-01-02T00:00:00+00:00"), PyStr("not-a-date"), None, PyInt(5)}

\* SpecDeser: the arguments deserialize is called with
DeserInputs ==
    {NonDict(kd) : kd \in {"str", "list", "int", "NoneType"}}
    \cup {Dict(NoMapping)}
    \cup {Dict(Without([Body(1, "Kern").m EXCEPT !["containment_datetime"] = c,
                                                  !["fire_discovery_datetime"] = f],
                       miss)) :
            miss \in {ms \in SUBSET Keys : Cardinality(ms) <= MaxMissing},
            c \in TimestampValues, f \in TimestampValues}

\* a populated object, as FireIncident.find returns one
PopulatedFireIncident == deserialize_try(NewFireIncident, Body(2, "Los Angeles")).rec

NoResult == [exc |-> "none", msg |-> "", key |-> "", n |-> 0]

----------------------------------------------------------------------------
(* Storage.  db.session is one session for the whole process: init_db      *)
(* pushes an application context that every later request reuses.  An      *)
(* object of the session whose attributes were assigned stays in it, with  *)
(* the assigned values, until the session is flushed or rolled back.       *)

NoTable == [i \in {} |-> NewFireIncident]

Min(S) == CHOOSE i \in S : \A j \in S : i <= j

\* the primary key an object carries
pk(obj) == obj["object_id"].n

\* UPDATE fire_incident SET <attributes of obj> WHERE object_id = key
update_row(rows, key, obj) ==
    [i \in ((DOMAIN rows) \ {key}) \cup {pk(obj)} |->
        IF i = pk(obj) THEN obj ELSE rows[i]]

\* a row as it is loaded from the table: a DateTime(timezone=True) column
\* keeps the instant, and the database returns it at its own offset (UTC)
loaded(obj) ==
    [k \in Keys |-> IF obj[k].t = "datetime" THEN DateTime(obj[k].n, 0) ELSE obj[k]]

\* session.commit(): the rows are committed and every object of the session
\* is expired, so that it is loaded again when it is read
commit(rows) == [i \in DOMAIN rows |-> loaded(rows[i])]

\* session.flush(): the modified objects are written in the order of their
\* identity keys; an object whose object_id was changed to that of another
\* row violates the primary key (IntegrityError)
RECURSIVE flush(_, _)
flush(rows, objs) ==
    IF DOMAIN objs = {} THEN [ok |-> TRUE, rows |-> rows]
    ELSE LET key == Min(DOMAIN objs)
             obj == objs[key]
         IN  IF pk(obj) # key /\ pk(obj) \in DOMAIN rows
             THEN [ok |-> FALSE, rows |-> rows]
             ELSE flush(update_row(rows, key, obj), Without(objs, {key}))

\* cls.query.get(by_id) for an object the session does not hold: the session
\* is flushed, then the row is selected by its primary key
select_by_id(by_id) ==
    LET f == flush(tx, session)
    IN  IF ~f.ok
        THEN [exc |-> "IntegrityError", found |-> FALSE, obj |-> NewFireIncident,
              rows |-> table, objs |-> NoTable]
        ELSE [exc |-> "none", found |-> by_id \in DOMAIN f.rows,
              obj |-> IF by_id \in DOMAIN f.rows THEN f.rows[by_id]
                      ELSE NewFireIncident,
              rows |-> f.rows, objs |-> NoTable]

\* FireIncident.find(by_id) = cls.query.get(by_id): an object of the session
\* is returned as it is; otherwise the row is selected.  rows/objs are tx and
\* session afterwards (a failed flush rolls the transaction back).
find(by_id) ==
    IF by_id \in DOMAIN session
    THEN [exc |-> "none", found |-> TRUE, obj |-> session[by_id],
          rows |-> tx, objs |-> session]
    ELSE select_by_id(by_id)

\* FireIncident.all() = cls.query.all(): flushes, then selects every row
all ==
    LET f == flush(tx, session)
    IN  IF ~f.ok
        THEN [exc |-> "IntegrityError", found |-> {}, rows |-> table, objs |-> NoTable]
        ELSE [exc |-> "none", found |-> {f.rows[i] : i \in DOMAIN f.rows},
              rows |-> f.rows, objs |-> NoTable]

\* FireIncident.find_by_poo_county(poo_county), iterated: flushes, then
\* selects the rows WHERE poo_county = :poo_county
find_by_poo_county(poo_county) ==
    LET f == flush(tx, session)
    IN  IF ~f.ok
        THEN [exc |-> "IntegrityError", found |-> {}, rows |-> table, objs |-> NoTable]
        ELSE [exc |-> "none",
              found |-> {f.rows[i] : i \in {j \in DOMAIN f.rows :
                                             f.rows[j]["poo_county"] = PyStr(poo_county)}},
              rows |-> f.rows, objs |-> NoTable]

\* fire_incident.serialize()
serialize(obj) ==
    [k \in Keys |-> IF k \in DateKeys THEN isoformat(obj[k]) ELSE obj[k]]

----------------------------------------------------------------------------
(* Requests and responses *)

HTTP_200_OK == 200
HTTP_201_CREATED == 201
HTTP_204_NO_CONTENT == 204
HTTP_400_BAD_REQUEST == 400
HTTP_404_NOT_FOUND == 404
HTTP_415_UNSUPPORTED_MEDIA_TYPE == 415
HTTP_500_INTERNAL_SERVER_ERROR == 500

\* the Content-Type header: NoHeader when the request has none
NoHeader == "<none>"
ContentTypes == {NoHeader, "application/json", "text/html"}

\* the poo_county query parameter: <<>> when the request has none
QueryArgs == {<<>>, <<"">>} \cup {<<c>> : c \in Counties}

\* a body whose timestamp is a str that is not ISO-8601
BadTimestampBody(oid, county) ==
    Dict([Body(oid, county).m EXCEPT !["containment_datetime"] = PyStr("not-a-date")])

\* a body without poo_state and the keys read after it
TruncatedBody(oid, county) ==
    Dict(Without(Body(oid, county).m,
                 {"poo_state", "fire_cause_id", "poo_landowner_category",
                  "unique_fire_identifier"}))

\* the bodies requests carry; NonDict("nojson") is an empty or malformed body
ValidBodies == {Body(oid, c) : oid \in BodyIds, c \in Counties}
InvalidBodies ==
    {TruncatedBody(oid, "Kern") : oid \in BodyIds}
    \cup {BadTimestampBody(1, "Kern"), Dict(NoMapping), NonDict("nojson")}
Bodies == ValidBodies \cup InvalidBodies

\* the Content-Type and body of the write requests: every body as JSON, and
\* some bodies under each other Content-Type
WriteInputs ==
    {<<"application/json", b>> : b \in Bodies}
    \cup {<<ct, b>> : ct \in ContentTypes \ {"application/json"},
                     b \in {Body(1, "Kern"), Dict(NoMapping)}}

NoBody == NonDict("nojson")

Request(method, id, ct, args, body) ==
    [method |-> method, id |-> id, ct |-> ct, args |-> args, body |-> body]

\* a response: kind is "record" | "list" | "empty" | "error", body the
\* serialized records, id the object_id of the Location header or of the
\* 404 message, exc the exception behind an error
Response(status, kind, body, id, exc) ==
    [status |-> status, kind |-> kind, body |-> body, id |-> id, exc |-> exc]

NoRequest == Request("none", 0, NoHeader, <<>>, NoBody)
NoResponse == Response(0, "empty", {}, 0, "none")

\* the error handlers: a DataValidationError is answered 400, a werkzeug
\* BadRequest 400, any other exception 500
error_response(exc) ==
    Response(IF exc \in {"DataValidationError", "BadRequest"}
             THEN HTTP_400_BAD_REQUEST
             ELSE HTTP_500_INTERNAL_SERVER_ERROR,
             "error", {}, 0, exc)

\* a faulty variant of check_content_type: a request without the header passes
check_content_type_missing_passes(ct, content_type) ==
    IF ct = NoHeader THEN 0
    ELSE IF ct = content_type THEN 0
    ELSE HTTP_415_UNSUPPORTED_MEDIA_TYPE

\* check_content_type(content_type): the status it aborts with, 0 when it
\* returns
check_content_type(ct, content_type) ==
    IF ct = NoHeader THEN HTTP_415_UNSUPPORTED_MEDIA_TYPE
    ELSE IF ct = content_type THEN 0
    ELSE HTTP_415_UNSUPPORTED_MEDIA_TYPE

\* request.get_json(): BadRequest when the body is not JSON
get_json(body) ==
    IF body.kind = "nojson" THEN [exc |-> "BadRequest", val |-> body]
    ELSE [exc |-> "none", val |-> body]

----------------------------------------------------------------------------
(* The model's operations on the session *)

Put(m, k, v) == [i \in (DOMAIN m) \cup {k} |-> IF i = k THEN v ELSE m[i]]

\* a faulty variant of create: the object is not expired by the commit and
\* keeps the attributes it was given
create_without_expire(obj) ==
    LET f == flush(tx, session)
    IN  IF ~f.ok \/ pk(obj) \in DOMAIN f.rows
        THEN [exc |-> "IntegrityError", rows |-> table, obj |-> obj]
        ELSE [exc |-> "none", rows |-> commit(Put(f.rows, pk(obj), obj)),
              obj |-> obj]

\* a faulty variant of create: the table has no primary key, the row is
\* inserted whatever object_ids the table holds
create_without_primary_key(obj) ==
    LET f == flush(tx, session)
    IN  IF ~f.ok
        THEN [exc |-> "IntegrityError", rows |-> table, obj |-> obj]
        ELSE [exc |-> "none", rows |-> commit(Put(f.rows, pk(obj), obj)),
              obj |-> loaded(obj)]

\* fire_incident.create(): session.add(self); session.commit().  The modified
\* objects are updated, then the new row is inserted with the object_id the
\* object carries; obj is the object as it is read back after the commit.
create(obj) ==
    LET f == flush(tx, session)
    IN  IF ~f.ok \/ pk(obj) \in DOMAIN f.rows
        THEN [exc |-> "IntegrityError", rows |-> table, obj |-> obj]
        ELSE [exc |-> "none", rows |-> commit(Put(f.rows, pk(obj), obj)),
              obj |-> loaded(obj)]

\* fire_incident.update(): session.commit() writes every modified object of
\* the session
update(rows, objs) ==
    LET f == flush(rows, objs)
    IN  IF ~f.ok
        THEN [exc |-> "IntegrityError", rows |-> table]
        ELSE [exc |-> "none", rows |-> commit(f.rows)]

\* fire_incident.delete(): session.delete(self); session.commit().  The other
\* modified objects are updated, then the row of the identity key is deleted.
delete(rows, objs, key) ==
    LET f == flush(rows, Without(objs, {key}))
    IN  IF ~f.ok
        THEN [exc |-> "IntegrityError", rows |-> table]
        ELSE [exc |-> "none", rows |-> commit(Without(f.rows, {key}))]

----------------------------------------------------------------------------
(* The request handlers.  The deserialize variables are not theirs. *)

\* SpecConc: the threads that serve requests
Threads == {"t1", "t2"}

\* a thread between requests
IdleThread ==
    [pc |-> "idle", req |-> NoRequest, obj |-> NewFireIncident, resp |-> NoResponse]

Idle == UNCHANGED <<pc, fire_incident, data, result, threads>>

\* GET /fires
list_fire_incidents(args) ==
    /\ req' = Request("LIST", 0, NoHeader, args, NoBody)
    /\ \E poo_county \in {IF args = <<>> THEN "" ELSE args[1]} :
       \E q \in {IF poo_county # "" THEN find_by_poo_county(poo_county) ELSE all} :
          /\ resp' = IF q.exc # "none" THEN error_response(q.exc)
                     ELSE Response(HTTP_200_OK, "list",
                                   {serialize(r) : r \in q.found}, 0, "none")
          /\ tx' = q.rows
          /\ session' = q.objs
    /\ UNCHANGED table
    /\ Idle

\* GET /fires/<object_id>
get_fire_incidents(object_id) ==
    /\ req' = Request("GET", object_id, NoHeader, <<>>, NoBody)
    /\ \E f \in {find(object_id)} :
          /\ resp' = IF f.exc # "none" THEN error_response(f.exc)
                     ELSE IF ~f.found
                     THEN Response(HTTP_404_NOT_FOUND, "error", {}, object_id,
                                   "NotFound")
                     ELSE Response(HTTP_200_OK, "record", {serialize(f.obj)}, 0, "none")
          /\ tx' = f.rows
          /\ session' = f.objs
    /\ UNCHANGED table
    /\ Idle

\* POST /fires
create_fire_incidents(ct, body) ==
    /\ req' = Request("POST", 0, ct, <<>>, body)
    /\ \E c \in {check_content_type(ct, "application/json")} :
       IF c # 0
       THEN /\ resp' = Response(c, "error", {}, 0, "UnsupportedMediaType")
            /\ UNCHANGED <<table, tx, session>>
       ELSE
       \E j \in {get_json(body)} :
       IF j.exc # "none"
       THEN /\ resp' = error_response(j.exc)
            /\ UNCHANGED <<table, tx, session>>
       ELSE
       \E d \in {deserialize(NewFireIncident, j.val)} :
       IF d.exc # "none"
       THEN /\ resp' = error_response(d.exc)
            /\ UNCHANGED <<table, tx, session>>
       ELSE
       \E s \in {create(d.rec)} :
       IF s.exc # "none"
       THEN /\ resp' = error_response(s.exc)
            /\ tx' = table
            /\ session' = NoTable
            /\ UNCHANGED table
       ELSE /\ resp' = Response(HTTP_201_CREATED, "record",
                                {serialize(s.obj)}, pk(s.obj), "none")
            /\ table' = s.rows
            /\ tx' = s.rows
            /\ session' = NoTable
    /\ Idle

\* PUT /fires/<object_id>
update_fire_incidents(object_id, ct, body) ==
    /\ req' = Request("PUT", object_id, ct, <<>>, body)
    /\ \E c \in {check_content_type(ct, "application/json")} :
       IF c # 0
       THEN /\ resp' = Response(c, "error", {}, 0, "UnsupportedMediaType")
            /\ UNCHANGED <<table, tx, session>>
       ELSE
       \E f \in {find(object_id)} :
       IF f.exc # "none"
       THEN /\ resp' = error_response(f.exc)
            /\ tx' = f.rows
            /\ session' = f.objs
            /\ UNCHANGED table
       ELSE IF ~f.found
       THEN /\ resp' = Response(HTTP_404_NOT_FOUND, "error", {}, object_id, "NotFound")
            /\ tx' = f.rows
            /\ session' = f.objs
            /\ UNCHANGED table
       ELSE
       \E j \in {get_json(body)} :
       IF j.exc # "none"
       THEN /\ resp' = error_response(j.exc)
            /\ tx' = f.rows
            /\ session' = f.objs
            /\ UNCHANGED table
       ELSE
       \E d \in {deserialize(f.obj, j.val)} :
       IF d.exc # "none"
       THEN \* the attributes assigned before the exception stay assigned
            /\ resp' = error_response(d.exc)
            /\ tx' = f.rows
            /\ session' = IF d.n > 0 THEN Put(f.objs, object_id, d.rec) ELSE f.objs
            /\ UNCHANGED table
       ELSE
       \E obj \in {[d.rec EXCEPT !["object_id"] = PyInt(object_id)]} :
       \E u \in {update(f.rows, Put(f.objs, object_id, obj))} :
       IF u.exc # "none"
       THEN /\ resp' = error_response(u.exc)
            /\ tx' = table
            /\ session' = NoTable
            /\ UNCHANGED table
       ELSE /\ resp' = Response(HTTP_200_OK, "record",
                                {serialize(u.rows[object_id])}, 0, "none")
            /\ table' = u.rows
            /\ tx' = u.rows
            /\ session' = NoTable
    /\ Idle

\* DELETE /fires/<object_id>
delete_fire_incidents(object_id) ==
    /\ req' = Request("DELETE", object_id, NoHeader, <<>>, NoBody)
    /\ \E f \in {find(object_id)} :
       IF f.exc # "none"
       THEN /\ resp' = error_response(f.exc)
            /\ tx' = f.rows
            /\ session' = f.objs
            /\ UNCHANGED table
       ELSE IF ~f.found
       THEN /\ resp' = Response(HTTP_204_NO_CONTENT, "empty", {}, 0, "none")
            /\ tx' = f.rows
            /\ session' = f.objs
            /\ UNCHANGED table
       ELSE
       \E x \in {delete(f.rows, f.objs, object_id)} :
       IF x.exc # "none"
       THEN /\ resp' = error_response(x.exc)
            /\ tx' = table
            /\ session' = NoTable
            /\ UNCHANGED table
       ELSE /\ resp' = Response(HTTP_204_NO_CONTENT, "empty", {}, 0, "none")
            /\ table' = x.rows
            /\ tx' = x.rows
            /\ session' = NoTable
    /\ Idle

\* db.session.remove(): the open transaction is rolled back and the objects
\* of the session are discarded
session_remove ==
    /\ req' = Request("remove", 0, NoHeader, <<>>, NoBody)
    /\ resp' = NoResponse
    /\ tx' = table
    /\ session' = NoTable
    /\ UNCHANGED table
    /\ Idle

Init ==
    /\ table = NoTable
    /\ tx = NoTable
    /\ session = NoTable
    /\ req = NoRequest
    /\ resp = NoResponse
    /\ pc = "idle"
    /\ fire_incident = NewFireIncident
    /\ data = NoBody
    /\ result = NoResult
    /\ threads = [t \in Threads |-> IdleThread]

Next ==
    \/ \E args \in QueryArgs : list_fire_incidents(args)
    \/ \E object_id \in Ids : get_fire_incidents(object_id)
    \/ \E w \in WriteInputs : create_fire_incidents(w[1], w[2])
    \/ \E object_id \in Ids, w \in WriteInputs :
          update_fire_incidents(object_id, w[1], w[2])
    \/ \E object_id \in Ids : delete_fire_incidents(object_id)
    \/ session_remove

Spec == Init /\ [][Next]_vars

\* the session only holds objects whose rows the transaction holds
TypeOK ==
    /\ DOMAIN session \subseteq DOMAIN tx
    /\ DOMAIN table \subseteq BodyIds
    /\ DOMAIN tx \subseteq BodyIds

----------------------------------------------------------------------------
(* SpecDeser: one call of FireIncident.deserialize *)

InitDeser ==
    /\ table = NoTable /\ tx = NoTable /\ session = NoTable
    /\ req = NoRequest /\ resp = NoResponse
    /\ pc = "call"
    /\ fire_incident \in {NewFireIncident, PopulatedFireIncident}
    /\ data \in DeserInputs
    /\ result = NoResult
    /\ threads = [t \in Threads |-> IdleThread]

deserialize_call ==
    /\ pc = "call"
    /\ LET r == deserialize(fire_incident, data)
       IN  /\ fire_incident' = r.rec
           /\ result' = [exc |-> r.exc, msg |-> r.msg, key |-> r.key, n |-> r.n]
    /\ pc' = "done"
    /\ UNCHANGED <<data, table, tx, session, req, resp, threads>>

NextDeser == deserialize_call

SpecDeser == InitDeser /\ [][NextDeser]_vars

----------------------------------------------------------------------------
(* SpecConc: PUT and DELETE requests served by concurrent threads.  A      *)
(* request served by a thread of its own runs in its own application       *)
(* context, so it has its own session and its own transaction, which end   *)
(* with the request; the threads meet in the table.  A handler is split at *)
(* its database statements: the SELECT of find, the UPDATE or DELETE with  *)
(* its COMMIT, and the SELECT that loads the expired object for serialize. *)
(* tx and session are those of Spec and are not used here.                 *)

\* the object_ids and bodies of the concurrent requests
ConcIds == {1, 2}
ConcInputs ==
    {<<"application/json", b>> :
        b \in {Body(1, "Kern"), Body(2, "Los Angeles"), TruncatedBody(1, "Kern")}}
    \cup {<<NoHeader, Body(1, "Kern")>>}

ConcUnchanged == UNCHANGED <<tx, session, req, resp, pc, fire_incident, data, result>>

Finish(t, response) ==
    threads' = [threads EXCEPT ![t].pc = "done", ![t].resp = response]

\* a faulty variant of update_committed: the UPDATE inserts the row when no
\* row has the identity key
update_or_insert(rows, key, obj) ==
    [exc |-> "none", rows |-> commit(Put(rows, key, obj))]

\* fire_incident.update() in a transaction of its own: UPDATE ... WHERE
\* object_id = key, then COMMIT; StaleDataError when the UPDATE matches no row
update_committed(rows, key, obj) ==
    IF key \notin DOMAIN rows
    THEN [exc |-> "StaleDataError", rows |-> rows]
    ELSE [exc |-> "none", rows |-> commit(update_row(rows, key, obj))]

\* PUT, up to FireIncident.find: check_content_type, then the SELECT
put_find(t, object_id, ct, body) ==
    /\ threads[t].pc \in {"idle", "done"}
    /\ \E c \in {check_content_type(ct, "application/json")} :
       threads' = [threads EXCEPT ![t] =
          [pc |-> IF c = 0 /\ object_id \in DOMAIN table THEN "found" ELSE "done",
           req |-> Request("PUT", object_id, ct, <<>>, body),
           obj |-> IF c = 0 /\ object_id \in DOMAIN table THEN table[object_id]
                   ELSE NewFireIncident,
           resp |-> IF c # 0
                    THEN Response(c, "error", {}, 0, "UnsupportedMediaType")
                    ELSE IF object_id \notin DOMAIN table
                    THEN Response(HTTP_404_NOT_FOUND, "error", {}, object_id,
                                  "NotFound")
                    ELSE NoResponse]]
    /\ UNCHANGED table
    /\ ConcUnchanged

\* PUT, from deserialize to the commit of fire_incident.update()
put_update(t) ==
    /\ threads[t].pc = "found"
    /\ threads[t].req.method = "PUT"
    /\ \E j \in {get_json(threads[t].req.body)} :
       IF j.exc # "none"
       THEN Finish(t, error_response(j.exc)) /\ UNCHANGED table
       ELSE
       \E d \in {deserialize(threads[t].obj, j.val)} :
       IF d.exc # "none"
       THEN Finish(t, error_response(d.exc)) /\ UNCHANGED table
       ELSE
       \E obj \in {[d.rec EXCEPT !["object_id"] = PyInt(threads[t].req.id)]} :
       \E u \in {update_committed(table, threads[t].req.id, obj)} :
       IF u.exc # "none"
       THEN Finish(t, error_response(u.exc)) /\ UNCHANGED table
       ELSE /\ threads' = [threads EXCEPT ![t].pc = "committed", ![t].obj = obj]
            /\ table' = u.rows
    /\ ConcUnchanged

\* PUT, fire_incident.serialize(): the object was expired by the commit and
\* is loaded again; ObjectDeletedError when its row is gone
put_serialize(t) ==
    /\ threads[t].pc = "committed"
    /\ Finish(t, IF threads[t].req.id \in DOMAIN table
                 THEN Response(HTTP_200_OK, "record",
                               {serialize(table[threads[t].req.id])}, 0, "none")
                 ELSE error_response("ObjectDeletedError"))
    /\ UNCHANGED table
    /\ ConcUnchanged

\* DELETE, up to FireIncident.find
delete_find(t, object_id) ==
    /\ threads[t].pc \in {"idle", "done"}
    /\ threads' = [threads EXCEPT ![t] =
          [pc |-> IF object_id \in DOMAIN table THEN "found" ELSE "done",
           req |-> Request("DELETE", object_id, NoHeader, <<>>, NoBody),
           obj |-> IF object_id \in DOMAIN table THEN table[object_id]
                   ELSE NewFireIncident,
           resp |-> IF object_id \in DOMAIN table THEN NoResponse
                    ELSE Response(HTTP_204_NO_CONTENT, "empty", {}, 0, "none")]]
    /\ UNCHANGED table
    /\ ConcUnchanged

\* DELETE, fire_incident.delete(): DELETE ... WHERE object_id = key, then
\* COMMIT; a DELETE that matches no row only warns
delete_committed(t) ==
    /\ threads[t].pc = "found"
    /\ threads[t].req.method = "DELETE"
    /\ table' = Without(table, {threads[t].req.id})
    /\ Finish(t, Response(HTTP_204_NO_CONTENT, "empty", {}, 0, "none"))
    /\ ConcUnchanged

\* the table holds the records of two POSTs
InitConc ==
    /\ table = commit([i \in ConcIds |->
                         deserialize(NewFireIncident, Body(i, "Los Angeles")).rec])
    /\ tx = table
    /\ session = NoTable
    /\ req = NoRequest /\ resp = NoResponse
    /\ pc = "idle"
    /\ fire_incident = NewFireIncident
    /\ data = NoBody
    /\ result = NoResult
    /\ threads = [t \in Threads |-> IdleThread]

NextConc ==
    \/ \E t \in Threads, object_id \in ConcIds, w \in ConcInputs :
          put_find(t, object_id, w[1], w[2])
    \/ \E t \in Threads : put_update(t)
    \/ \E t \in Threads : put_serialize(t)
    \/ \E t \in Threads, object_id \in ConcIds : delete_find(t, object_id)
    \/ \E t \in Threads : delete_committed(t)

SpecConc == InitConc /\ [][NextConc]_vars

----------------------------------------------------------------------------
(* Properties of deserialize (SpecDeser) *)

MissingKeys(d) == Keys \ DOMAIN d.m

\* C1: for every mapping that lacks a required key, whatever the values of
\* the keys present, deserialize raises a DataValidationError whose message
\* names a key missing from the mapping.
C1_MissingKeyIsNamed ==
    (pc = "done" /\ data.kind = "dict" /\ MissingKeys(data) # {})
        => /\ result.exc = "DataValidationError"
           /\ result.msg = "missing"
           /\ result.key \in MissingKeys(data)

\* C2: for every mapping with all the required keys and a timestamp that is
\* a str but not ISO-8601, deserialize raises a DataValidationError.
C2_BadTimestampIsValidationError ==
    (/\ pc = "done"
     /\ data.kind = "dict"
     /\ MissingKeys(data) = {}
     /\ \E k \in DateKeys : data.m[k].t = "str" /\ data.m[k].s \notin IsoStrings)
        => result.exc = "DataValidationError"

\* C5: for every input that is not a mapping (a str, a list, a number, None)
\* deserialize raises a DataValidationError and assigns no attribute.
C5_NonMappingRejected ==
    [][(pc = "call" /\ data.kind # "dict")
          => /\ result'.exc = "DataValidationError"
             /\ result'.n = 0
             /\ fire_incident' = fire_incident]_vars

C5_Witness ==
    /\ pc = "done"
    /\ data.kind = "str"
    /\ result.exc = "DataValidationError"
    /\ fire_incident = PopulatedFireIncident

\* the aware datetimes of the timestamps used here
DateTimes == {DateTime(0, 0), DateTime(0, 60), DateTime(1440, 0)}

\* fully populated valid records: every column has a value of its type
ValidRecords ==
    {[k \in Keys |->
        CASE k = "containment_datetime" -> c
          [] k = "fire_discovery_datetime" -> f
          [] k = "poo_county" -> PyStr("Kern")
          [] OTHER -> SampleValue(k)] : c \in DateTimes, f \in DateTimes}

\* C13: for every fully populated valid record r, deserialize applied to
\* serialize(r) raises nothing and leaves an object equal to r in all 16
\* fields, the timestamps with the instant and the offset they have in r.
C13_RoundTrip ==
    \A r \in ValidRecords :
        (pc = "done" /\ data = Dict(serialize(r)))
            => /\ result.exc = "none"
               /\ result.n = Len(FieldOrder)
               /\ fire_incident = r

C13_Witness ==
    /\ pc = "done"
    /\ \E r \in ValidRecords :
          /\ r["containment_datetime"] = DateTime(0, 60)
          /\ r["fire_discovery_datetime"] = DateTime(1440, 0)
          /\ data = Dict(serialize(r))
          /\ fire_incident = r

----------------------------------------------------------------------------
(* Properties of the handlers (Spec).  Every step is the handling of the   *)
(* request req', answered resp'.                                           *)

JSON == "application/json"

\* the request r addresses the record i
Targets(r, i) == r.method \in {"GET", "PUT", "DELETE"} /\ r.id = i

\* C3: a POST or PUT whose body fails validation leaves the stored
\* collection as it was, and the record a failed PUT addressed keeps its
\* fields through the request that follows, unless that one addresses it.
C3_NoPartialWrites ==
    [][/\ (req'.method \in {"POST", "PUT"} /\ resp'.exc = "DataValidationError")
            => table' = table
       /\ (/\ req.method = "PUT"
           /\ resp.exc = "DataValidationError"
           /\ req.id \in DOMAIN table
           /\ ~Targets(req', req.id))
            => /\ req.id \in DOMAIN table'
               /\ table'[req.id] = table[req.id]]_vars

\* C4: a POST with a valid body is answered 201 and inserts one
\* record under an object_id that storage chose, also when the body carries
\* the object_id of a stored record.
C4_StorageAssignsId ==
    [][(/\ req'.method = "POST"
        /\ req'.ct = JSON
        /\ req'.body \in ValidBodies
        /\ pk(req'.body.m) \in DOMAIN table)
          => /\ resp'.status = HTTP_201_CREATED
             /\ resp'.id \notin DOMAIN table
             /\ DOMAIN table' = (DOMAIN table) \cup {resp'.id}]_vars

\* C6: a POST or PUT whose Content-Type is missing or is not application/json
\* is answered 415 and changes nothing, whatever its body; a POST of the
\* empty JSON object is answered 400 and creates no record.
C6_ContentTypeChecked ==
    [][/\ (req'.method \in {"POST", "PUT"} /\ req'.ct # JSON)
            => /\ resp'.status = HTTP_415_UNSUPPORTED_MEDIA_TYPE
               /\ UNCHANGED <<table, tx, session>>
       /\ (req'.method = "POST" /\ req'.ct = JSON /\ req'.body = Dict(NoMapping))
            => /\ resp'.status = HTTP_400_BAD_REQUEST
               /\ UNCHANGED <<table, tx, session>>]_vars

C6_Witness ==
    /\ req.method = "PUT"
    /\ req.ct = NoHeader
    /\ req.body \in ValidBodies
    /\ req.id \in DOMAIN table
    /\ resp.status = HTTP_415_UNSUPPORTED_MEDIA_TYPE

\* C7: a PUT on an object_id that no stored record has is answered 404 and
\* leaves the stored collection as it was.
C7_PutAbsentIs404 ==
    [][(req'.method = "PUT" /\ req'.ct = JSON /\ req'.id \notin DOMAIN table)
          => /\ resp'.status = HTTP_404_NOT_FOUND
             /\ table' = table]_vars

\* C8: after a successful PUT on a stored record, the record returned and
\* the record stored carry the object_id of the path, and the stored
\* object_ids are the ones stored before.
C8_PutKeepsIdentity ==
    [][(/\ req'.method = "PUT"
        /\ resp'.status = HTTP_200_OK
        /\ req'.id \in DOMAIN table)
          => /\ \A r \in resp'.body : pk(r) = req'.id
             /\ req'.id \in DOMAIN table'
             /\ pk(table'[req'.id]) = req'.id
             /\ DOMAIN table' = DOMAIN table]_vars

\* C9: a DELETE is answered 204 with an empty body whether or not the
\* record is stored, and no record with that id is stored afterwards; a GET
\* of the id that follows is answered 404; a DELETE of the id that follows
\* is answered 204 and leaves the stored collection as it was.
C9_DeleteIdempotent ==
    [][/\ req'.method = "DELETE"
            => /\ resp'.status = HTTP_204_NO_CONTENT
               /\ resp'.kind = "empty"
               /\ req'.id \notin DOMAIN table'
       /\ (req.method = "DELETE" /\ req'.method = "GET" /\ req'.id = req.id)
            => resp'.status = HTTP_404_NOT_FOUND
       /\ (req.method = "DELETE" /\ req'.method = "DELETE" /\ req'.id = req.id)
            => /\ resp'.status = HTTP_204_NO_CONTENT
               /\ table' = table]_vars

\* the stored records whose poo_county is v
StoredWithCounty(v) ==
    {table[i] : i \in {j \in DOMAIN table : table[j]["poo_county"] = PyStr(v)}}

\* C10: for every string V given as poo_county, the empty string included,
\* GET /fires lists exactly the stored records whose poo_county is V.
C10_FilterByCounty ==
    [][(req'.method = "LIST" /\ req'.args # <<>>)
          => /\ resp'.status = HTTP_200_OK
             /\ resp'.body = {serialize(r) : r \in StoredWithCounty(req'.args[1])}]_vars

\* the serialized stored records
StoredSerialized == {serialize(table[i]) : i \in DOMAIN table}

\* C11: every POST with a valid body, whatever object_id it carries, adds one
\* record to the stored collection, so that N of them from the empty
\* collection give N records; GET /fires without a filter lists exactly the
\* stored records.
C11_ListIsWhatWasCreated ==
    [][/\ (req'.method = "POST" /\ req'.ct = JSON /\ req'.body \in ValidBodies)
            => /\ resp'.status = HTTP_201_CREATED
               /\ Cardinality(DOMAIN table') = Cardinality(DOMAIN table) + 1
       /\ (req'.method = "LIST" /\ req'.args = <<>>)
            => /\ resp'.status = HTTP_200_OK
               /\ resp'.body = StoredSerialized]_vars

\* C12: a POST answered 201 returns the serialized new record, and its
\* Location names the object_id under which that record is stored; a GET of
\* the Location that follows it at once is answered 200 with the same body.
C12_LocationRoundTrip ==
    [][/\ (req'.method = "POST" /\ resp'.status = HTTP_201_CREATED)
            => /\ resp'.kind = "record"
               /\ resp'.id \in DOMAIN table'
               /\ resp'.body = {serialize(table'[resp'.id])}
               /\ \A r \in resp'.body : r["object_id"] = PyInt(resp'.id)
       /\ (/\ req.method = "POST"
           /\ resp.status = HTTP_201_CREATED
           /\ req'.method = "GET"
           /\ req'.id = resp.id)
            => /\ resp'.status = HTTP_200_OK
               /\ resp'.body = resp.body]_vars

C12_Witness ==
    /\ req.method = "POST"
    /\ resp.status = HTTP_201_CREATED
    /\ resp.id \in Ids
    /\ req.body.m["poo_county"] = PyStr("Kern")
    /\ resp.body = {serialize(table[resp.id])}

C15_ObjectIdsDistinct ==
    /\ [](\A i \in DOMAIN table : pk(table[i]) = i)
    /\ [][(req'.method = "POST" /\ resp'.status = HTTP_201_CREATED)
             => Cardinality(DOMAIN table') = Cardinality(DOMAIN table) + 1]_vars
    /\ [][(req'.method = "PUT" /\ resp'.status = HTTP_200_OK)
             => Cardinality(DOMAIN table') = Cardinality(DOMAIN table)]_vars

C15_Witness ==
    /\ req.method = "POST"
    /\ req.ct = JSON
    /\ req.body \in ValidBodies
    /\ pk(req.body.m) \in DOMAIN table
    /\ resp.exc = "IntegrityError"
    /\ Cardinality(DOMAIN table) = 2

\* the value the body b gives for the key k, a timestamp as the datetime
\* its string denotes
BodyValue(b, k) == IF k \in DateKeys THEN IsoParse(b.m[k].s) ELSE b.m[k]

\* the stored value is the value v; a stored timestamp is the instant of v
SameValue(stored, v) ==
    IF v.t = "datetime" THEN stored.t = "datetime" /\ stored.n = v.n
    ELSE stored = v

\* C16: after a PUT answered 200 every field of the stored record of the
\* path id, other than object_id, has the value the request body gives for
\* it (a timestamp: the instant the body gives), and the response body is
\* the serialization of that stored record.
C16_PutOverwritesAll ==
    [][(req'.method = "PUT" /\ resp'.status = HTTP_200_OK)
          => /\ req'.id \in DOMAIN table'
             /\ \A k \in Keys \ {"object_id"} :
                   SameValue(table'[req'.id][k], BodyValue(req'.body, k))
             /\ resp'.body = {serialize(table'[req'.id])}]_vars

C16_Witness ==
    /\ req.method = "PUT"
    /\ resp.status = HTTP_200_OK
    /\ pk(req.body.m) # req.id
    /\ req.body.m["poo_county"] = PyStr("Kern")
    /\ req.id \in DOMAIN table
    /\ table[req.id]["poo_county"] = PyStr("Kern")
    /\ resp.body = {serialize(table[req.id])}

\* the stored records other than i are the same before and after the step
OthersUnchanged(i) ==
    /\ (DOMAIN table') \ {i} = (DOMAIN table) \ {i}
    /\ \A j \in (DOMAIN table) \ {i} : table'[j] = table[j]

\* C18: a POST answered 201 adds one record and leaves every stored record
\* as it was; a PUT answered 200 or a DELETE answered 204 on the id i leaves
\* every stored record of another id as it was, in every field.
C18_WritesOnlyTheirTarget ==
    [][/\ (req'.method = "POST" /\ resp'.status = HTTP_201_CREATED)
            => /\ resp'.id \notin DOMAIN table
               /\ DOMAIN table' = (DOMAIN table) \cup {resp'.id}
               /\ OthersUnchanged(resp'.id)
       /\ (\/ req'.method = "PUT" /\ resp'.status = HTTP_200_OK
           \/ req'.method = "DELETE" /\ resp'.status = HTTP_204_NO_CONTENT)
            => OthersUnchanged(req'.id)]_vars

\* C19: a PUT whose Content-Type is missing or not application/json is
\* answered 415, also when the id is not stored; with application/json a
\* PUT on an id that is not stored is answered 404, also when the body is
\* invalid; a PUT is answered 400 only when the Content-Type is
\* application/json and a record with the id is stored.
C19_PutCheckOrder ==
    [][req'.method = "PUT"
          => /\ req'.ct # JSON => resp'.status = HTTP_415_UNSUPPORTED_MEDIA_TYPE
             /\ (req'.ct = JSON /\ req'.id \notin DOMAIN table)
                  => resp'.status = HTTP_404_NOT_FOUND
             /\ resp'.status = HTTP_400_BAD_REQUEST
                  => (req'.ct = JSON /\ req'.id \in DOMAIN table)]_vars

----------------------------------------------------------------------------
(* Properties of concurrent requests (SpecConc) *)

\* the step is one of the PUT that thread t serves
PutStep(t) == threads'[t] # threads[t] /\ threads'[t].req.method = "PUT"

\* the step is the 200 answer of the PUT that thread t serves
PutAnswers200(t) ==
    /\ PutStep(t)
    /\ threads'[t].pc = "done"
    /\ threads'[t].resp.status = HTTP_200_OK

\* the stored record i has the fields the body b gives, object_id aside
StoredIsBody(rows, i, b) ==
    /\ i \in DOMAIN rows
    /\ \A k \in Keys \ {"object_id"} : SameValue(rows[i][k], BodyValue(b, k))

====
